---- MODULE Spec2Model ----
(***************************************************************************)
(* State-machine model of src/main.py (Smart Tile Maker): the handler      *)
(* generate_textures, its preflight issue_check, the name loop             *)
(* GPTGenerator.generate_texture_names and SDImageGenerator.generate_image.*)
(* Everything is single-threaded and blocking; pc is the position of the   *)
(* one handler that is running.  Strings that the code only concatenates   *)
(* are TLA+ strings; strings the code inspects (keys that are encoded,     *)
(* base64 payloads that are split) are sequences of code points / tokens.  *)
(***************************************************************************)
EXTENDS Integers, Sequences, FiniteSets, TLC

VARIABLES
    environ,        \* os.environ, as a set of <<name, value>> pairs
    key,            \* global key: "OS_KEY" or "USER_KEY"
    api_key,        \* openai.api_key
    key_text,       \* key_edit.text()
    promt_text,     \* promt_edit.text()
    folder_path,    \* global folder_path
    folder_exists,  \* whether folder_path exists on the file system
    files,          \* the file system below the output folders: path -> content
    pc,             \* position of the running handler
    test,           \* result of issue_check(): "none", TRUE or FALSE
    dialogs,        \* messages shown by show_error_dialog, in order
    log,            \* every check, collaborator call, decode and save of the run, in
                    \* order; in a second run, after the entry of what the first left
    user_input_var, \* GPTGenerator.user_input_var
    texture_names,  \* the list built by generate_texture_names
    i,              \* loop index of generate_texture_names (0-based, as in the code)
    images,         \* r['images'] of the last txt2img response
    n,              \* 1-based position of the for loop over r['images']
    image,          \* the image decoded by Image.open
    odd             \* number of unusual responses that raised nothing, so far

vars == <<environ, key, api_key, key_text, promt_text, folder_path, folder_exists,
          files, pc, test, dialogs, log, user_input_var, texture_names, i,
          images, n, image, odd>>

----------------------------------------------------------------------------
(* Bounds of the model *)

\* most images the image service returns in one txt2img response
MaxImages == 2
\* most unusual responses of one run that raise nothing: a completion that repeats
\* a name it was told to avoid, an HTTP error status of the options call, a txt2img
\* response whose image count differs from batch_size = 1
MaxOddResponses == 1

(* Program constants *)

\* for i in range(5)
NumTextures == 5
\* 'latin-1' encodes the code points 0..255
Latin1Max == 255

SD_URL == "http://127.0.0.1:7860"
HOME_FOLDER == "~/Smart-Tile-Maker"
PICKED_FOLDER == "/picked"
Folders == {HOME_FOLDER, PICKED_FOLDER}

\* keys as sequences of code points: "skÿ", "skĀ" and an emoji
Keys == { <<115, 107, 255>>, <<115, 107, 256>>, <<128512>> }
Themes == { "", "zombie apocalypse" }
\* texts the completion service answers with, in the order it comes up with them
Names == << "wood", "iron", "stone", "brick", "moss" >>

\* the exceptions of openai.error that issue_check catches
ApiErrors == { "APIError", "APIConnectionError", "RateLimitError", "AuthenticationError" }

----------------------------------------------------------------------------
(* Helpers *)

Last(s) == s[Len(s)]

\* openai.api_key before anything assigned it (USER_KEY mode, before the handler runs)
NoKey == << >>

\* os.environ["OPENAI_API_KEY"]
EnvKey == (CHOOSE e \in environ : e[1] = "OPENAI_API_KEY")[2]

\* str.encode('latin-1') returns iff every code point is at most 255;
\* otherwise it raises UnicodeEncodeError
CanEncodeLatin1(s) == \A c \in 1..Len(s) : s[c] <= Latin1Max

\* one entry of the log: what was done, with what, how it ended, what came back,
\* and the credential openai.api_key it was done with (<< >> where none is used)
Event(op, arg, status, resp, cred) ==
    [op |-> op, arg |-> arg, status |-> status, resp |-> resp, cred |-> cred]

\* the messages handed to show_error_dialog
MSG_FOLDER == "The folder you selected dose not exsist. Try selecting a diffrent folder"
MSG_SD == "Faild to connect to SD. Make sure you have it running on your computor"
MSG_KEY == "Your Open AI key contaned ivalid Characters. Make sure you enter a valid key click 'Get help' to learn how to get one"
MSG_OPENAI == "There was an error connecting to Open AI. Make sure you enter a valid key click 'Get help' to learn how to get one "
MSG_API(e) ==
    CASE e = "APIError" -> MSG_OPENAI \o "\n(APIError)"
      [] e = "APIConnectionError" -> MSG_OPENAI \o "\n(APIConnectionError)"
      [] e = "RateLimitError" ->
            MSG_OPENAI \o "\nYou are out of creditds you can get more from OpenAI\n(RateLimitError)"
      [] e = "AuthenticationError" -> MSG_OPENAI \o "\n(AuthenticationError)"

config == <<environ, key, key_text, promt_text, folder_path, folder_exists>>
loopvars == <<user_input_var, texture_names, i, images, n, image, odd>>

----------------------------------------------------------------------------
(* Module start-up and the window before the handler is triggered *)

Init ==
    /\ environ \in {{}} \cup { {<<"OPENAI_API_KEY", k>>} : k \in Keys }
    /\ key = IF \E e \in environ : e[1] = "OPENAI_API_KEY" THEN "OS_KEY" ELSE "USER_KEY"
    /\ api_key = IF key = "OS_KEY" THEN EnvKey ELSE NoKey
    /\ key_text \in Keys
    /\ promt_text \in Themes
    /\ folder_path = HOME_FOLDER
    /\ folder_exists = TRUE
    /\ files = << >>
    /\ pc = "idle"
    /\ test = "none"
    /\ dialogs = << >>
    /\ log = << >>
    /\ user_input_var = ""
    /\ texture_names = << >>
    /\ i = 0
    /\ images = << >>
    /\ n = 0
    /\ image = << >>
    /\ odd = 0

\* browse_folder: the dialog returns an existing directory, or '' when cancelled
browse_folder ==
    /\ pc = "idle"
    /\ \E select_folder_path \in (Folders \ {folder_path}) \cup {""} :
          IF select_folder_path # ""
          THEN /\ folder_path' = select_folder_path
               /\ folder_exists' = TRUE
          ELSE UNCHANGED <<folder_path, folder_exists>>
    /\ UNCHANGED <<environ, key, api_key, key_text, promt_text, files, pc, test,
                   dialogs, log>>
    /\ UNCHANGED loopvars

\* the selected folder is deleted outside the tool while the window is open
\* (the case the first check of issue_check is there for)
folder_removed ==
    /\ pc = "idle"
    /\ folder_exists
    /\ folder_exists' = FALSE
    /\ files' = [p \in {q \in DOMAIN files : q[1] # folder_path} |-> files[p]]
    /\ UNCHANGED <<environ, key, api_key, key_text, promt_text, folder_path, pc, test,
                   dialogs, log>>
    /\ UNCHANGED loopvars

\* generate_textures, up to the call of issue_check: in USER_KEY mode
\* openai.api_key is set from the field (user_key_var is assigned here and again
\* after the check, and never read: ask_gpt uses openai.api_key)
generate_textures ==
    /\ pc = "idle"
    /\ api_key' = IF key = "USER_KEY" THEN key_text ELSE api_key
    /\ pc' = "check_folder"
    /\ UNCHANGED <<files, test, dialogs, log>>
    /\ UNCHANGED config
    /\ UNCHANGED loopvars

----------------------------------------------------------------------------
(* issue_check *)

\* check_folder returning False without calling show_error_dialog
check_folder_silent ==
    /\ pc = "check_folder"
    /\ log' = Append(log, Event("QDir.exists", <<folder_path>>,
                                IF folder_exists THEN "ok" ELSE "missing", << >>, << >>))
    /\ IF folder_exists
       THEN /\ pc' = "check_sd"
            /\ UNCHANGED test
       ELSE /\ test' = "false"
            /\ pc' = "if_test"
    /\ UNCHANGED <<api_key, files, dialogs>>
    /\ UNCHANGED config
    /\ UNCHANGED loopvars

\* if not QDir(folder_path).exists(): dialog, return False
check_folder ==
    /\ pc = "check_folder"
    /\ log' = Append(log, Event("QDir.exists", <<folder_path>>,
                                IF folder_exists THEN "ok" ELSE "missing", << >>, << >>))
    /\ IF folder_exists
       THEN /\ pc' = "check_sd"
            /\ UNCHANGED <<test, dialogs>>
       ELSE /\ dialogs' = Append(dialogs, MSG_FOLDER)
            /\ test' = "false"
            /\ pc' = "if_test"
    /\ UNCHANGED <<api_key, files>>
    /\ UNCHANGED config
    /\ UNCHANGED loopvars

\* check_sd with the "return False" of its except branch left out: the dialog is
\* shown and issue_check goes on to the next check
check_sd_no_return ==
    /\ pc = "check_sd"
    /\ \E status \in {"ok", "RequestException"} :
          /\ log' = Append(log, Event("requests.get", <<SD_URL>>, status, << >>, << >>))
          /\ dialogs' = IF status = "ok" THEN dialogs ELSE Append(dialogs, MSG_SD)
          /\ pc' = "check_key_text"
    /\ UNCHANGED <<api_key, files, test>>
    /\ UNCHANGED config
    /\ UNCHANGED loopvars

\* requests.get(SD_URL); raise_for_status(); except RequestException: dialog, return False
check_sd ==
    /\ pc = "check_sd"
    /\ \E status \in {"ok", "RequestException"} :
          /\ log' = Append(log, Event("requests.get", <<SD_URL>>, status, << >>, << >>))
          /\ IF status = "ok"
             THEN /\ pc' = "check_key_text"
                  /\ UNCHANGED <<test, dialogs>>
             ELSE /\ dialogs' = Append(dialogs, MSG_SD)
                  /\ test' = "false"
                  /\ pc' = "if_test"
    /\ UNCHANGED <<api_key, files>>
    /\ UNCHANGED config
    /\ UNCHANGED loopvars

\* check_key_text taking the field as the credential once it has encoded it:
\* openai.api_key = key_edit.text()
check_key_text_sets_api_key ==
    /\ pc = "check_key_text"
    /\ log' = Append(log, Event("encode", <<"key_edit.text()">>,
                                IF CanEncodeLatin1(key_text) THEN "ok" ELSE "UnicodeEncodeError",
                                << >>, key_text))
    /\ IF CanEncodeLatin1(key_text)
       THEN /\ api_key' = key_text
            /\ pc' = "check_api_key"
            /\ UNCHANGED <<test, dialogs>>
       ELSE /\ dialogs' = Append(dialogs, MSG_KEY)
            /\ test' = "false"
            /\ pc' = "if_test"
            /\ UNCHANGED api_key
    /\ UNCHANGED files
    /\ UNCHANGED config
    /\ UNCHANGED loopvars

\* key_edit.text().encode('latin-1'); except UnicodeEncodeError: dialog, return False
check_key_text ==
    /\ pc = "check_key_text"
    /\ log' = Append(log, Event("encode", <<"key_edit.text()">>,
                                IF CanEncodeLatin1(key_text) THEN "ok" ELSE "UnicodeEncodeError",
                                << >>, key_text))
    /\ IF CanEncodeLatin1(key_text)
       THEN /\ pc' = "check_api_key"
            /\ UNCHANGED <<test, dialogs>>
       ELSE /\ dialogs' = Append(dialogs, MSG_KEY)
            /\ test' = "false"
            /\ pc' = "if_test"
    /\ UNCHANGED <<api_key, files>>
    /\ UNCHANGED config
    /\ UNCHANGED loopvars

\* check_api_key without the encodability test of openai.api_key
check_api_key_skipped ==
    /\ pc = "check_api_key"
    /\ pc' = "check_openai"
    /\ UNCHANGED <<api_key, files, test, dialogs, log>>
    /\ UNCHANGED config
    /\ UNCHANGED loopvars

\* okey = openai.api_key; okey.encode('latin-1'); except UnicodeEncodeError: dialog, return False
check_api_key ==
    /\ pc = "check_api_key"
    /\ log' = Append(log, Event("encode", <<"openai.api_key">>,
                                IF CanEncodeLatin1(api_key) THEN "ok" ELSE "UnicodeEncodeError",
                                << >>, api_key))
    /\ IF CanEncodeLatin1(api_key)
       THEN /\ pc' = "check_openai"
            /\ UNCHANGED <<test, dialogs>>
       ELSE /\ dialogs' = Append(dialogs, MSG_KEY)
            /\ test' = "false"
            /\ pc' = "if_test"
    /\ UNCHANGED <<api_key, files>>
    /\ UNCHANGED config
    /\ UNCHANGED loopvars

\* check_openai with one except clause for all four exceptions, showing the
\* APIError message whichever was raised
check_openai_one_message ==
    /\ pc = "check_openai"
    /\ \E status \in {"ok"} \cup ApiErrors :
          /\ log' = Append(log, Event("Completion.create", <<"test">>, status,
                                      << >>, api_key))
          /\ IF status = "ok"
             THEN /\ test' = "true"
                  /\ UNCHANGED dialogs
             ELSE /\ dialogs' = Append(dialogs, MSG_API("APIError"))
                  /\ test' = "false"
          /\ pc' = "if_test"
    /\ UNCHANGED <<api_key, files>>
    /\ UNCHANGED config
    /\ UNCHANGED loopvars

\* openai.Completion.create(prompt="test"); each of the four caught exceptions shows
\* its own dialog and returns False; otherwise return True
check_openai ==
    /\ pc = "check_openai"
    /\ \E status \in {"ok"} \cup ApiErrors :
          /\ log' = Append(log, Event("Completion.create", <<"test">>, status,
                                      << >>, api_key))
          /\ IF status = "ok"
             THEN /\ test' = "true"
                  /\ UNCHANGED dialogs
             ELSE /\ dialogs' = Append(dialogs, MSG_API(status))
                  /\ test' = "false"
          /\ pc' = "if_test"
    /\ UNCHANGED <<api_key, files>>
    /\ UNCHANGED config
    /\ UNCHANGED loopvars

\* generate_textures without "if test:": the names are generated whatever
\* issue_check returned
if_test_ignored ==
    /\ pc = "if_test"
    /\ user_input_var' = promt_text
    /\ texture_names' = << >>
    /\ i' = 0
    /\ pc' = "ask_gpt"
    /\ UNCHANGED <<api_key, files, test, dialogs, log, images, n, image, odd>>
    /\ UNCHANGED config

\* generate_textures after issue_check: if test: build the GPTGenerator from
\* promt_edit.text() and call generate_texture_names (texture_names = []); else return
if_test ==
    /\ pc = "if_test"
    /\ IF test = "true"
       THEN /\ user_input_var' = promt_text
            /\ texture_names' = << >>
            /\ i' = 0
            /\ pc' = "ask_gpt"
       ELSE /\ pc' = "done"
            /\ UNCHANGED <<user_input_var, texture_names, i>>
    /\ UNCHANGED <<api_key, files, test, dialogs, log, images, n, image, odd>>
    /\ UNCHANGED config

----------------------------------------------------------------------------
(* GPTGenerator.generate_texture_names and SDImageGenerator.generate_image *)

Min(S) == CHOOSE x \in S : \A y \in S : x <= y

PROMPT_HEAD == "only reply with a one word answer. Name a single material used in "
OTHER_THAN == " other than these "
CHECKPOINT == "TextureDiffusion_10.ckpt [ded387e0f3]"

\* Python's names[:idx]
PySlice(names, idx) == SubSeq(names, 1, IF idx < Len(names) THEN idx ELSE Len(names))

\* Prompt with the slice off by one: texture_names[:idx - 1]
Prompt_short_slice(theme, names, idx) ==
    <<PROMPT_HEAD, theme>> \o
        (IF idx > 0 THEN <<OTHER_THAN>> \o PySlice(names, idx - 1) ELSE << >>)

\* Prompt with an empty theme special-cased: "generic" is asked for instead
Prompt_generic_theme(theme, names, idx) ==
    <<PROMPT_HEAD, IF theme = "" THEN "generic" ELSE theme>> \o
        (IF idx > 0 THEN <<OTHER_THAN>> \o PySlice(names, idx) ELSE << >>)

\* the prompt of iteration idx: the instruction and the theme, and for idx > 0 the
\* clause " other than these " with texture_names[:idx]
Prompt(theme, names, idx) ==
    <<PROMPT_HEAD, theme>> \o
        (IF idx > 0 THEN <<OTHER_THAN>> \o PySlice(names, idx) ELSE << >>)

\* the file name without the loop index: f"Texture"
FileName_no_index(idx) == "Texture"

\* SDImageGenerator(f"Texture{i}", "PBR, " + texture_names[i])
FileName(idx) == "Texture" \o ToString(idx)
SdInput(names, idx) == <<"PBR, ", names[idx + 1]>>

\* os.path.join(folder_path, f"{file_name}.png")
FilePath(folder, file_name) == <<folder, file_name \o ".png">>

\* whether a run came before this one: the log then starts with what it left
AfterEarlierRun == log # << >> /\ log[1].op = "return"
\* the files the earlier run left in the folders
EarlierFiles == IF AfterEarlierRun THEN log[1].resp[1] ELSE << >>

\* a base64 image string of the service, as tokens: the plain payload of image
\* `slot` of the response to call idx, and the same payload as a data URI; the
\* service draws a new seed for every call (seed -1), so a later run gets other images
RawImage(idx, slot) ==
    <<"b64", IF AfterEarlierRun THEN "later" ELSE "first", ToString(idx), ToString(slot)>>
DataUri(idx, slot) == <<"data:image/png;base64", ",">> \o RawImage(idx, slot)

\* the responses the service may give to the txt2img call of iteration idx:
\* any number of images up to MaxImages, each plain or a data URI
Responses(idx) ==
    UNION { { r \in [1..k -> {RawImage(idx, j) : j \in 1..k} \cup {DataUri(idx, j) : j \in 1..k}] :
                \A j \in 1..k : r[j] \in {RawImage(idx, j), DataUri(idx, j)} } :
            k \in 0..MaxImages }

\* i.split(",", 1)[0]: the tokens before the first comma
SplitHead(s) ==
    LET commas == {k \in 1..Len(s) : s[k] = ","}
    IN  IF commas = {} THEN s ELSE SubSeq(s, 1, Min(commas) - 1)

\* base64.b64decode + Image.open succeed on a base64 payload and raise on
\* anything else ("data:image/png;base64" is not padded base64)
CanDecode(s) == Len(s) > 0 /\ s[1] = "b64"
B64Decode(s) == [s EXCEPT ![1] = "png"]

\* the info the service's png-info endpoint reports for an image payload
PngInfo(payload) == <<"parameters">> \o Tail(payload)

\* what the completion service may answer in iteration idx: its next material,
\* or, against the instruction of the prompt, one of the names it gave before
Repeated(names) == {names[k] : k \in 1..Len(names)}
Answers(names, idx) == {Names[idx + 1]} \cup Repeated(names)

\* ask_gpt with a retry on duplicates: a name that is already in texture_names is
\* dropped and the same iteration asks again
ask_gpt_retry_duplicate ==
    /\ pc = "ask_gpt"
    /\ \/ \E name \in Answers(texture_names, i) :
             /\ name \in Repeated(texture_names) => odd < MaxOddResponses
             /\ odd' = IF name \in Repeated(texture_names) THEN odd + 1 ELSE odd
             /\ log' = Append(log, Event("Completion.create",
                                         Prompt(user_input_var, texture_names, i),
                                         "ok", <<(<<name>>)>>, api_key))
             /\ IF name \in Repeated(texture_names)
                THEN /\ pc' = "ask_gpt"
                     /\ UNCHANGED texture_names
                ELSE /\ texture_names' = Append(texture_names, name)
                     /\ pc' = "sd_options"
       \/ /\ log' = Append(log, Event("Completion.create",
                                      Prompt(user_input_var, texture_names, i),
                                      "raised", << >>, api_key))
          /\ pc' = "aborted"
          /\ UNCHANGED <<texture_names, odd>>
    /\ UNCHANGED <<api_key, files, test, dialogs, user_input_var, i, images, n, image>>
    /\ UNCHANGED config

\* ask_gpt in a loop of its own: all five names are asked for before the first
\* image is synthesized
ask_gpt_names_first ==
    /\ pc = "ask_gpt"
    /\ \/ \E name \in Answers(texture_names, Len(texture_names)) :
             /\ name \in Repeated(texture_names) => odd < MaxOddResponses
             /\ odd' = IF name \in Repeated(texture_names) THEN odd + 1 ELSE odd
             /\ log' = Append(log, Event("Completion.create",
                                         Prompt(user_input_var, texture_names,
                                                Len(texture_names)),
                                         "ok", <<(<<name>>)>>, api_key))
             /\ texture_names' = Append(texture_names, name)
             /\ pc' = IF Len(texture_names) + 1 < NumTextures THEN "ask_gpt"
                                                              ELSE "sd_options"
       \/ /\ log' = Append(log, Event("Completion.create",
                                      Prompt(user_input_var, texture_names,
                                             Len(texture_names)),
                                      "raised", << >>, api_key))
          /\ pc' = "aborted"
          /\ UNCHANGED <<texture_names, odd>>
    /\ UNCHANGED <<api_key, files, test, dialogs, user_input_var, i, images, n, image>>
    /\ UNCHANGED config

\* ask_gpt with one retry: when the completion call raises, it is issued once more
\* before the exception is let through
ask_gpt_retry_once ==
    /\ pc = "ask_gpt"
    /\ \/ \E name \in Answers(texture_names, i) :
             /\ name \in Repeated(texture_names) => odd < MaxOddResponses
             /\ odd' = IF name \in Repeated(texture_names) THEN odd + 1 ELSE odd
             /\ log' = Append(log, Event("Completion.create",
                                         Prompt(user_input_var, texture_names, i),
                                         "ok", <<(<<name>>)>>, api_key))
             /\ texture_names' = Append(texture_names, name)
             /\ pc' = "sd_options"
       \/ /\ log' = Append(log, Event("Completion.create",
                                      Prompt(user_input_var, texture_names, i),
                                      "raised", << >>, api_key))
          /\ pc' = IF Last(log).status = "raised" THEN "aborted" ELSE "ask_gpt"
          /\ UNCHANGED <<texture_names, odd>>
    /\ UNCHANGED <<api_key, files, test, dialogs, user_input_var, i, images, n, image>>
    /\ UNCHANGED config

\* texture_names.append(self.ask_gpt(prompt)); an exception of the call propagates
ask_gpt ==
    /\ pc = "ask_gpt"
    /\ \/ \E name \in Answers(texture_names, i) :
             /\ name \in Repeated(texture_names) => odd < MaxOddResponses
             /\ odd' = IF name \in Repeated(texture_names) THEN odd + 1 ELSE odd
             /\ log' = Append(log, Event("Completion.create",
                                         Prompt(user_input_var, texture_names, i),
                                         "ok", <<(<<name>>)>>, api_key))
             /\ texture_names' = Append(texture_names, name)
             /\ pc' = "sd_options"
       \/ /\ log' = Append(log, Event("Completion.create",
                                      Prompt(user_input_var, texture_names, i),
                                      "raised", << >>, api_key))
          /\ pc' = "aborted"
          /\ UNCHANGED <<texture_names, odd>>
    /\ UNCHANGED <<api_key, files, test, dialogs, user_input_var, i, images, n, image>>
    /\ UNCHANGED config

\* requests.post(f'{SD_URL}/sdapi/v1/options'): the response is not looked at, so an
\* HTTP error status goes unnoticed; an exception of requests.post propagates
post_options ==
    /\ pc = "sd_options"
    /\ \E status \in {"ok", "http_error", "raised"} :
          /\ status = "http_error" => odd < MaxOddResponses
          /\ odd' = IF status = "http_error" THEN odd + 1 ELSE odd
          /\ log' = Append(log, Event("options",
                                      <<SD_URL \o "/sdapi/v1/options", CHECKPOINT>>,
                                      status, << >>, << >>))
          /\ pc' = IF status = "raised" THEN "aborted" ELSE "sd_txt2img"
    /\ UNCHANGED <<api_key, files, test, dialogs, user_input_var, texture_names, i,
                   images, n, image>>
    /\ UNCHANGED config

\* requests.post(f'{SD_URL}/sdapi/v1/txt2img'); r = response.json(); r['images']:
\* an exception of the call, a body that is not JSON or has no 'images' propagates
post_txt2img ==
    /\ pc = "sd_txt2img"
    /\ \/ \E r \in Responses(i) :
             /\ Len(r) # 1 => odd < MaxOddResponses
             /\ odd' = IF Len(r) # 1 THEN odd + 1 ELSE odd
             /\ log' = Append(log, Event("txt2img",
                                         <<SD_URL \o "/sdapi/v1/txt2img">> \o SdInput(texture_names, i),
                                         "ok", r, << >>))
             /\ images' = r
             /\ n' = 1
             /\ pc' = "for_images"
       \/ /\ log' = Append(log, Event("txt2img",
                                      <<SD_URL \o "/sdapi/v1/txt2img">> \o SdInput(texture_names, i),
                                      "raised", << >>, << >>))
          /\ pc' = "aborted"
          /\ UNCHANGED <<images, n, odd>>
    /\ UNCHANGED <<api_key, files, test, dialogs, user_input_var, texture_names, i, image>>
    /\ UNCHANGED config

\* for i in r['images']: image = Image.open(io.BytesIO(base64.b64decode(i.split(",", 1)[0])))
decode_image ==
    /\ pc = "for_images"
    /\ n <= Len(images)
    /\ LET part == SplitHead(images[n])
       IN  IF CanDecode(part)
           THEN /\ image' = B64Decode(part)
                /\ log' = Append(log, Event("b64decode", part, "ok", <<B64Decode(part)>>, << >>))
                /\ pc' = "png_info"
           ELSE /\ log' = Append(log, Event("b64decode", part, "raised", << >>, << >>))
                /\ pc' = "aborted"
                /\ UNCHANGED image
    /\ UNCHANGED <<api_key, files, test, dialogs, user_input_var, texture_names, i, images, n, odd>>
    /\ UNCHANGED config

\* png_info_save with the failure of the png-info call swallowed: the image is
\* skipped and the for loop goes on
png_info_save_swallowed ==
    /\ pc = "png_info"
    /\ LET payload == <<"data:image/png;base64,">> \o images[n]
           info == PngInfo(payload)
           path == FilePath(folder_path, FileName(i))
       IN  \/ /\ log' = Append(Append(log,
                           Event("png-info", <<SD_URL \o "/sdapi/v1/png-info">> \o payload,
                                 "ok", <<info>>, << >>)),
                           Event("save", path, "ok", <<image, info>>, << >>))
              /\ files' = (path :> [image |-> image, parameters |-> info]) @@ files
           \/ /\ log' = Append(log,
                           Event("png-info", <<SD_URL \o "/sdapi/v1/png-info">> \o payload,
                                 "raised", << >>, << >>))
              /\ UNCHANGED files
    /\ n' = n + 1
    /\ pc' = "for_images"
    /\ UNCHANGED <<api_key, test, dialogs, user_input_var, texture_names, i, images, image, odd>>
    /\ UNCHANGED config

\* png_info_save written for batch_size = 1: after the first image is saved the
\* for loop over r['images'] is left
png_info_save_first_only ==
    /\ pc = "png_info"
    /\ LET payload == <<"data:image/png;base64,">> \o images[n]
           info == PngInfo(payload)
           path == FilePath(folder_path, FileName(i))
       IN  \/ /\ log' = Append(Append(log,
                           Event("png-info", <<SD_URL \o "/sdapi/v1/png-info">> \o payload,
                                 "ok", <<info>>, << >>)),
                           Event("save", path, "ok", <<image, info>>, << >>))
              /\ files' = (path :> [image |-> image, parameters |-> info]) @@ files
              /\ n' = Len(images) + 1
              /\ pc' = "for_images"
           \/ /\ log' = Append(log,
                           Event("png-info", <<SD_URL \o "/sdapi/v1/png-info">> \o payload,
                                 "raised", << >>, << >>))
              /\ pc' = "aborted"
              /\ UNCHANGED <<files, n>>
    /\ UNCHANGED <<api_key, test, dialogs, user_input_var, texture_names, i, images, image, odd>>
    /\ UNCHANGED config

\* png_info_save that does not overwrite: a file that is already there makes the
\* save raise
png_info_save_keeps_existing ==
    /\ pc = "png_info"
    /\ LET payload == <<"data:image/png;base64,">> \o images[n]
           info == PngInfo(payload)
           path == FilePath(folder_path, FileName(i))
       IN  \/ /\ path \notin DOMAIN files
              /\ log' = Append(Append(log,
                           Event("png-info", <<SD_URL \o "/sdapi/v1/png-info">> \o payload,
                                 "ok", <<info>>, << >>)),
                           Event("save", path, "ok", <<image, info>>, << >>))
              /\ files' = (path :> [image |-> image, parameters |-> info]) @@ files
              /\ n' = n + 1
              /\ pc' = "for_images"
           \/ /\ path \in DOMAIN files
              /\ log' = Append(Append(log,
                           Event("png-info", <<SD_URL \o "/sdapi/v1/png-info">> \o payload,
                                 "ok", <<info>>, << >>)),
                           Event("save", path, "raised", << >>, << >>))
              /\ pc' = "aborted"
              /\ UNCHANGED <<files, n>>
           \/ /\ log' = Append(log,
                           Event("png-info", <<SD_URL \o "/sdapi/v1/png-info">> \o payload,
                                 "raised", << >>, << >>))
              /\ pc' = "aborted"
              /\ UNCHANGED <<files, n>>
    /\ UNCHANGED <<api_key, test, dialogs, user_input_var, texture_names, i, images, image, odd>>
    /\ UNCHANGED config

\* requests.post(f'{SD_URL}/sdapi/v1/png-info'); pnginfo.add_text("parameters",
\* response2.json()["info"]); image.save(<folder_path>/<file_name>.png, pnginfo=pnginfo)
png_info_save ==
    /\ pc = "png_info"
    /\ LET payload == <<"data:image/png;base64,">> \o images[n]
           info == PngInfo(payload)
           path == FilePath(folder_path, FileName(i))
       IN  \/ /\ log' = Append(Append(log,
                           Event("png-info", <<SD_URL \o "/sdapi/v1/png-info">> \o payload,
                                 "ok", <<info>>, << >>)),
                           Event("save", path, "ok", <<image, info>>, << >>))
              /\ files' = (path :> [image |-> image, parameters |-> info]) @@ files
              /\ n' = n + 1
              /\ pc' = "for_images"
           \/ /\ log' = Append(log,
                           Event("png-info", <<SD_URL \o "/sdapi/v1/png-info">> \o payload,
                                 "raised", << >>, << >>))
              /\ pc' = "aborted"
              /\ UNCHANGED <<files, n>>
    /\ UNCHANGED <<api_key, test, dialogs, user_input_var, texture_names, i, images, image, odd>>
    /\ UNCHANGED config

\* the images of this response are used up: next iteration of range(5), or
\* return texture_names and print it
next_texture ==
    /\ pc = "for_images"
    /\ n > Len(images)
    /\ i' = i + 1
    /\ pc' = IF i + 1 < NumTextures THEN "ask_gpt" ELSE "done"
    /\ UNCHANGED <<api_key, files, test, dialogs, log, user_input_var, texture_names,
                   images, n, image, odd>>
    /\ UNCHANGED config

\* the handler is over (it returned, or its exception ended it) and the user is
\* back at the form with the same inputs, about to trigger a second run: the
\* handler's locals and the dialog are gone, the files stay; of the first run the
\* log keeps only the files it left
run_again ==
    /\ pc \in {"done", "aborted"}
    /\ ~AfterEarlierRun
    /\ log' = <<Event("return", << >>, "ok", <<files>>, << >>)>>
    /\ pc' = "idle"
    /\ test' = "none"
    /\ dialogs' = << >>
    /\ user_input_var' = ""
    /\ texture_names' = << >>
    /\ i' = 0
    /\ images' = << >>
    /\ n' = 0
    /\ image' = << >>
    /\ UNCHANGED <<api_key, files, odd>>
    /\ UNCHANGED config

----------------------------------------------------------------------------
Next ==
    \/ browse_folder
    \/ folder_removed
    \/ generate_textures
    \/ check_folder
    \/ check_sd
    \/ check_key_text
    \/ check_api_key
    \/ check_openai
    \/ if_test
    \/ ask_gpt
    \/ post_options
    \/ post_txt2img
    \/ decode_image
    \/ png_info_save
    \/ next_texture

Spec == Init /\ [][Next]_vars

\* the steps of the running handler, as opposed to what the user does at the form
Handler ==
    \/ check_folder
    \/ check_sd
    \/ check_key_text
    \/ check_api_key
    \/ check_openai
    \/ if_test
    \/ ask_gpt
    \/ post_options
    \/ post_txt2img
    \/ decode_image
    \/ png_info_save
    \/ next_texture

\* every call the handler issues returns or fails, and the handler, which is the
\* only thing running, goes on with its next statement
FairSpec == Spec /\ WF_vars(Handler)

\* two runs one after the other into the same folder, with the same inputs: a key
\* typed into the field, no environment key, the default folder left as it is
InitRuns ==
    /\ Init
    /\ environ = {}
    /\ key_text = <<115, 107, 255>>
    /\ promt_text = "zombie apocalypse"

NextRuns ==
    \/ generate_textures
    \/ check_folder
    \/ check_sd
    \/ check_key_text
    \/ check_api_key
    \/ check_openai
    \/ if_test
    \/ ask_gpt
    \/ post_options
    \/ post_txt2img
    \/ decode_image
    \/ png_info_save
    \/ next_texture
    \/ run_again

SpecRuns == InitRuns /\ [][NextRuns]_vars

----------------------------------------------------------------------------
(* Vocabulary of the claims *)

Finished == pc \in {"done", "aborted"}

\* the number of the preflight check a log entry belongs to, 0 for any other entry
CheckOf(e) ==
    CASE e.op = "QDir.exists" -> 1
      [] e.op = "requests.get" -> 2
      [] e.op = "encode" -> 3
      [] e.op = "Completion.create" /\ e.arg = <<"test">> -> 4
      [] OTHER -> 0

IsCheck(e) == CheckOf(e) > 0
IsNameCall(e) == e.op = "Completion.create" /\ e.arg # <<"test">>
IsNetworkCall(e) == e.op \in {"requests.get", "Completion.create", "options", "txt2img", "png-info"}
IsGeneration(e) == IsNameCall(e) \/ e.op \in {"options", "txt2img", "b64decode", "png-info", "save"}

PreflightLog == SelectSeq(log, IsCheck)
NameCalls == SelectSeq(log, IsNameCall)
PreflightFailed == \E k \in 1..Len(log) : IsCheck(log[k]) /\ log[k].status # "ok"
\* the order the four checks are written in: directory, GET, credential (the
\* field, then openai.api_key), trial completion
CheckOrder == <<1, 2, 3, 3, 4>>
PreflightPassed ==
    /\ Len(PreflightLog) = Len(CheckOrder)
    /\ \A k \in 1..Len(CheckOrder) :
          CheckOf(PreflightLog[k]) = CheckOrder[k] /\ PreflightLog[k].status = "ok"

----------------------------------------------------------------------------
\* C1: the preflight checks are attempted in the order directory, reachability GET,
\* credential Latin-1 encodability, trial completion, before anything else of the
\* run, and once a check has failed no later check is invoked in that run.
C1_PreflightOrderShortCircuit ==
    /\ Len(PreflightLog) <= Len(CheckOrder)
    /\ \A k \in 1..Len(PreflightLog) :
          /\ CheckOf(PreflightLog[k]) = CheckOrder[k]
          /\ IsCheck(log[k])
          /\ PreflightLog[k].status # "ok" => k = Len(PreflightLog)

\* C1 witness: the reachability GET (check 2) failed and the run is over
C1_Witness ==
    /\ pc = "done"
    /\ Len(PreflightLog) = 2
    /\ PreflightLog[2].op = "requests.get"
    /\ PreflightLog[2].status = "RequestException"

\* C2 as stated: a run whose credential is not Latin-1 encodable has attempted no
\* network call at all, and ends with the InvalidKeyEncoding dialog.
C2_NoNetworkCallBeforeKeyVerdict ==
    (pc # "idle" /\ ~CanEncodeLatin1(api_key)) =>
        /\ \A k \in 1..Len(log) : ~IsNetworkCall(log[k])
        /\ Finished => (test = "false" /\ dialogs = <<MSG_KEY>>)

\* C2 amended: a run whose credential is not Latin-1 encodable never attempts a
\* completion call; when its directory exists and its reachability GET succeeds it
\* ends with the InvalidKeyEncoding dialog, that GET being its only network call.
C2_KeyVerdictBeforeCompletion ==
    (pc # "idle" /\ ~CanEncodeLatin1(api_key)) =>
        /\ \A k \in 1..Len(log) : log[k].op # "Completion.create"
        /\ (Finished /\ Len(log) >= 2 /\ log[1].status = "ok" /\ log[2].status = "ok") =>
              /\ test = "false"
              /\ dialogs = <<MSG_KEY>>
              /\ {k \in 1..Len(log) : IsNetworkCall(log[k])} = {2}
              /\ log[2].op = "requests.get"

\* C2 witness: a finished run with a credential outside Latin-1 that got the
\* InvalidKeyEncoding dialog after a successful GET
C2_Witness ==
    /\ Finished
    /\ ~CanEncodeLatin1(api_key)
    /\ dialogs = <<MSG_KEY>>
    /\ \E k \in 1..Len(log) : log[k].op = "requests.get" /\ log[k].status = "ok"

\* C3: no name-generation completion call, no image-service POST and no file write
\* happens unless all four preflight checks of the run have passed; a run whose
\* preflight fails generates no name and writes no file.
C3_GenerationGatedByPreflight ==
    /\ ((\E k \in 1..Len(log) : IsGeneration(log[k]))
            \/ texture_names # << >> \/ DOMAIN files # {})
          => (PreflightPassed /\ test = "true")
    /\ PreflightFailed =>
          /\ texture_names = << >>
          /\ DOMAIN files = {}
          /\ \A k \in 1..Len(log) : ~IsGeneration(log[k])

\* C3 witness: a run that passed preflight and wrote a file
C3_Witness == PreflightPassed /\ DOMAIN files # {}

\* C4: after a passed preflight the name loop makes its completion calls one after
\* the other; call 0 carries no exclusion clause, call k carries exactly the names
\* returned by calls 0..k-1 in order; a run that reaches its end has made exactly 5
\* calls and holds exactly the 5 returned names in call order.
C4_FiveNamesCumulativeExclusion ==
    LET calls == NameCalls
        returned(k) == calls[k].resp[1][1]
    IN  /\ Len(calls) <= 5
        /\ \A k \in 1..Len(calls) :
              /\ Len(calls[k].arg) >= 2
              /\ calls[k].arg[1] = PROMPT_HEAD
              /\ k = 1 => Len(calls[k].arg) = 2
              /\ k > 1 =>
                    /\ Len(calls[k].arg) = 3 + (k - 1)
                    /\ calls[k].arg[3] = OTHER_THAN
                    /\ \A j \in 1..(k - 1) : calls[k].arg[3 + j] = returned(j)
              /\ k < Len(calls) => calls[k].status = "ok"
        /\ (pc = "done" /\ test = "true") =>
              /\ Len(calls) = 5
              /\ Len(texture_names) = 5
              /\ \A k \in 1..5 :
                    calls[k].status = "ok" /\ texture_names[k] = returned(k)

\* C4 witness: a run that reached its end with five names, two of them different
C4_Witness ==
    /\ pc = "done"
    /\ test = "true"
    /\ Len(texture_names) = 5
    /\ texture_names[1] # texture_names[2]

----------------------------------------------------------------------------
IsTxt2Img(e) == e.op = "txt2img"
Txt2ImgCalls == SelectSeq(log, IsTxt2Img)
AllCallsSucceeded == \A k \in 1..Len(log) : log[k].status = "ok"
SuccessfulRun == pc = "done" /\ test = "true" /\ AllCallsSucceeded

\* <outputDirectory>/Texture<idx>.png
TexturePath(idx) == <<folder_path, "Texture" \o ToString(idx) \o ".png">>
\* the log positions of the writes of this run to Texture<idx>.png
SavesOf(idx) ==
    {k \in 1..Len(log) : log[k].op = "save" /\ log[k].arg = TexturePath(idx)}
Max(S) == CHOOSE x \in S : \A y \in S : x >= y

\* the file at path holds image img of a generate response as it was decoded, with
\* the info the describeImage call for that same img answered
HoldsImage(path, img) ==
    /\ \E k \in 1..Len(log) :
          /\ log[k].op = "b64decode"
          /\ log[k].arg = img
          /\ log[k].status = "ok"
          /\ files[path].image = log[k].resp[1]
    /\ \E k \in 1..Len(log) :
          /\ log[k].op = "png-info"
          /\ log[k].arg = <<SD_URL \o "/sdapi/v1/png-info", "data:image/png;base64,">> \o img
          /\ log[k].status = "ok"
          /\ files[path].parameters = log[k].resp[1]

\* C5 as stated: after a run in which every call succeeded, for every i in 0..4 the
\* file Texture<i>.png exists, generate was called with the prompt built from
\* names[i], and the file holds an image of that response with the info that
\* describeImage answered for it.
C5_OneFilePerName ==
    SuccessfulRun =>
        \A idx \in 0..4 :
            LET call == Txt2ImgCalls[idx + 1]
            IN  /\ call.arg = <<SD_URL \o "/sdapi/v1/txt2img", "PBR, ", texture_names[idx + 1]>>
                /\ TexturePath(idx) \in DOMAIN files
                /\ \E j \in 1..Len(call.resp) : HoldsImage(TexturePath(idx), call.resp[j])

\* C5 amended: after a run in which every call succeeded and every generate
\* response held at least one image, exactly the five files Texture0.png ..
\* Texture4.png have been written, Texture<i>.png once per image of response i, and
\* it holds the last image of the response to the prompt built from names[i], with
\* the info that describeImage answered for that image.
C5_OneFilePerNameLastImage ==
    (SuccessfulRun /\ \A idx \in 0..4 : Len(Txt2ImgCalls[idx + 1].resp) >= 1) =>
        /\ DOMAIN files = {TexturePath(idx) : idx \in 0..4}
        /\ \A idx \in 0..4 :
              LET call == Txt2ImgCalls[idx + 1]
              IN  /\ call.arg = <<SD_URL \o "/sdapi/v1/txt2img", "PBR, ", texture_names[idx + 1]>>
                  /\ Cardinality(SavesOf(idx)) = Len(call.resp)
                  /\ HoldsImage(TexturePath(idx), call.resp[Len(call.resp)])

\* C5 witness: a fully successful run with images for every name, two for one of them
C5_Witness ==
    /\ SuccessfulRun
    /\ \A idx \in 0..4 : Len(Txt2ImgCalls[idx + 1].resp) >= 1
    /\ \E idx \in 0..4 : Len(Txt2ImgCalls[idx + 1].resp) = 2

\* C6: with an environment credential every completion call carries that
\* credential, and the credential field has no influence on the run: no run is
\* stopped on the field's contents when the environment credential itself is
\* Latin-1 encodable.
C6_EnvCredentialBypassesField ==
    key = "OS_KEY" =>
        /\ \A k \in 1..Len(log) :
              log[k].op = "Completion.create" => log[k].cred = EnvKey
        /\ \A k \in 1..Len(log) :
              (log[k].op = "encode" /\ log[k].arg = <<"key_edit.text()">>
                    /\ log[k].status # "ok")
                 => ~CanEncodeLatin1(EnvKey)

C8_TrialFailureCategory ==
    /\ \A a, b \in ApiErrors : MSG_API(a) = MSG_API(b) => a = b
    /\ \A a \in ApiErrors : MSG_API(a) \notin {MSG_FOLDER, MSG_SD, MSG_KEY}
    /\ \A k \in 1..Len(log) :
          (CheckOf(log[k]) = 4 /\ log[k].status # "ok") =>
              /\ log[k].status \in ApiErrors
              /\ k = Len(log)
              /\ dialogs = <<MSG_API(log[k].status)>>
              /\ test = "false"
              /\ pc \in {"if_test", "done"}
              /\ texture_names = << >>
              /\ DOMAIN files = {}

\* C8 witness: the trial call raised RateLimitError and the run is over
C8_Witness ==
    /\ pc = "done"
    /\ Len(log) = 5
    /\ CheckOf(log[5]) = 4
    /\ log[5].status = "RateLimitError"

AbortedInLoop ==
    /\ pc = "aborted"
    /\ PreflightPassed
    /\ Last(log).op \in {"Completion.create", "txt2img", "b64decode", "png-info"}

\* every file the run saved is in place with what the last save to it wrote, and
\* nothing else is in the folder
SavedFilesInPlace ==
    /\ DOMAIN files = {log[k].arg : k \in {m \in 1..Len(log) : log[m].op = "save"}}
    /\ \A k \in 1..Len(log) :
          log[k].op = "save" =>
              LET last == log[Max({m \in 1..Len(log) :
                                     log[m].op = "save" /\ log[m].arg = log[k].arg})]
              IN  files[log[k].arg] = [image |-> last.resp[1], parameters |-> last.resp[2]]

\* C9 as stated: when a completion, synthesis or metadata call or a decode fails at
\* index i, nothing follows the failure, the run has written no file for any index
\* >= i, and the files written before are in place.
C9_AbortWritesNothingFromIndex ==
    AbortedInLoop =>
        /\ \A k \in 1..Len(log) : log[k].status = "raised" => k = Len(log)
        /\ \A idx \in i..4 : SavesOf(idx) = {}
        /\ SavedFilesInPlace

\* C9 amended: when such a call fails at index i, nothing follows the failure, the
\* run has written no file for any index > i, it has written Texture<i>.png once
\* for each image of response i that came before the failing one (so not at all
\* when the completion or synthesis call or the first image fails), and every file
\* written is in place.
C9_AbortKeepsEarlierWrites ==
    AbortedInLoop =>
        /\ \A k \in 1..Len(log) : log[k].status = "raised" => k = Len(log)
        /\ \A idx \in (i + 1)..4 : SavesOf(idx) = {}
        /\ Cardinality(SavesOf(i)) =
              IF Last(log).op \in {"b64decode", "png-info"} THEN n - 1 ELSE 0
        /\ \A idx \in 0..(i - 1) :
              Cardinality(SavesOf(idx)) = Len(Txt2ImgCalls[idx + 1].resp)
        /\ SavedFilesInPlace

\* C9 witness: the metadata call for the second image of index i >= 1 failed, after
\* files were written for an earlier index and for the first image of index i
C9_Witness ==
    /\ AbortedInLoop
    /\ i >= 1
    /\ n = 2
    /\ Last(log).op = "png-info"
    /\ SavesOf(i) # {}
    /\ SavesOf(0) # {}

\* C10: whatever the outcome of a setOptions call, the generate call of the same
\* index is issued next.
C10_OptionsBestEffort ==
    \A k \in 1..Len(log) :
        log[k].op = "options" =>
            IF k < Len(log) THEN log[k + 1].op = "txt2img" ELSE pc = "sd_txt2img"

----------------------------------------------------------------------------
\* C11: an empty theme is passed through unchanged: it stops no run that passed
\* the checks, the run makes the same 5 completion calls, and every prompt is the
\* instruction text followed by the empty theme, with the exclusion clause and the
\* earlier names for i > 0 and nothing else.
C11_EmptyThemePassedThrough ==
    promt_text = "" =>
        /\ PreflightPassed => test = "true"
        /\ \A k \in 1..Len(NameCalls) :
              LET arg == NameCalls[k].arg
              IN  /\ Len(arg) = IF k = 1 THEN 2 ELSE 3 + (k - 1)
                  /\ arg[1] = PROMPT_HEAD
                  /\ arg[2] = ""
                  /\ k > 1 => arg[3] = OTHER_THAN
        /\ (pc = "done" /\ test = "true") => Len(NameCalls) = 5

\* C11 witness: a run with an empty theme that made its five completion calls
C11_Witness ==
    /\ promt_text = ""
    /\ pc = "done"
    /\ Len(NameCalls) = 5
    /\ NameCalls[5].arg[2] = ""

\* C12: every name the completion service returns is appended at its position,
\* equal to an earlier name or not, and is the name synthesized at that index; the
\* loop never makes more than 5 completion calls, and a run that reaches its end
\* has made exactly 5, holds 5 names and has synthesized 5 times.
C12_DuplicatesAccepted ==
    LET calls == NameCalls
    IN  /\ Len(calls) <= 5
        /\ Len(texture_names) = Cardinality({k \in 1..Len(calls) : calls[k].status = "ok"})
        /\ \A k \in 1..Len(texture_names) : texture_names[k] = calls[k].resp[1][1]
        /\ Len(Txt2ImgCalls) <= Len(texture_names)
        /\ \A k \in 1..Len(Txt2ImgCalls) :
              Txt2ImgCalls[k].arg = <<SD_URL \o "/sdapi/v1/txt2img", "PBR, ", texture_names[k]>>
        /\ (pc = "done" /\ test = "true") =>
              /\ Len(calls) = 5
              /\ Len(texture_names) = 5
              /\ Len(Txt2ImgCalls) = 5

\* C12 witness: a run that reached its end with a name it had been told to avoid
C12_Witness ==
    /\ pc = "done"
    /\ Len(texture_names) = 5
    /\ \E j, k \in 1..5 : j < k /\ texture_names[k] = texture_names[j]
    /\ Len(Txt2ImgCalls) = 5

----------------------------------------------------------------------------
PreflightPcs == {"check_folder", "check_sd", "check_key_text", "check_api_key", "check_openai"}

\* what the loop works with is what issue_check looked at: every name call carries
\* the credential whose encodability was tested and the trial call was made with,
\* and every file is saved below the folder whose existence was tested
LoopUsesWhatWasChecked ==
    /\ \A k \in 1..Len(log) :
          IsNameCall(log[k]) =>
              /\ log[4].op = "encode" /\ log[4].arg = <<"openai.api_key">>
              /\ log[k].cred = log[4].cred
              /\ log[k].cred = log[5].cred
    /\ \A k \in 1..Len(log) :
          log[k].op = "save" =>
              /\ log[1].op = "QDir.exists"
              /\ log[k].arg[1] = log[1].arg[1]

\* C13: no step of issue_check, passing or failing, changes the theme, the
\* credential (field, environment, openai.api_key), the output folder or the files,
\* and the loop uses the credential and the folder that issue_check checked.
C13_PreflightFrame ==
    [][ /\ pc \in PreflightPcs =>
              UNCHANGED <<promt_text, key_text, environ, api_key, folder_path,
                          folder_exists, files>>
        /\ LoopUsesWhatWasChecked' ]_vars

\* C13 witness: a run with an environment credential into a folder picked in the
\* dialog that passed the checks, made a name call and saved a file
C13_Witness ==
    /\ key = "OS_KEY"
    /\ folder_path = PICKED_FOLDER
    /\ PreflightPassed
    /\ \E k \in 1..Len(log) : IsNameCall(log[k])
    /\ \E k \in 1..Len(log) : log[k].op = "save"

----------------------------------------------------------------------------
\* the log positions of the name calls, and the loop index a log position belongs
\* to: the number of name calls before it
NamePositions == {k \in 1..Len(log) : IsNameCall(log[k])}
NamesBefore(k) == Cardinality({p \in NamePositions : p < k})
AbortedInSynthesis ==
    /\ pc = "aborted"
    /\ Last(log).op \in {"options", "txt2img", "b64decode", "png-info"}

\* C14: between two successive name calls lies the whole synthesis of the earlier
\* name: one options call, one generate call that succeeded, and a decode, a
\* describeImage call and a write to Texture<i>.png for each image it returned, all
\* without failure; every generate call has exactly one more name call before it
\* than generate calls, so the first one follows the first name at once; and a run
\* that failed in the synthesis of index i has asked for i + 1 names and no more.
C14_NamesInterleavedWithSynthesis ==
    /\ \A p, q \in NamePositions :
          (p < q /\ NamesBefore(q) = NamesBefore(p) + 1) =>
              LET seg == (p + 1)..(q - 1)
                  gens == {k \in seg : log[k].op = "txt2img"}
                  path == TexturePath(NamesBefore(p))
              IN  /\ log[p + 1].op = "options"
                  /\ Cardinality({k \in seg : log[k].op = "options"}) = 1
                  /\ gens = {p + 2}
                  /\ \A k \in seg : log[k].status # "raised"
                  /\ Cardinality({k \in seg : log[k].op = "b64decode"})
                        = Len(log[p + 2].resp)
                  /\ Cardinality({k \in seg : log[k].op = "png-info"})
                        = Len(log[p + 2].resp)
                  /\ {k \in seg : log[k].op = "save"}
                        = {k \in seg : log[k].op = "save" /\ log[k].arg = path}
                  /\ Cardinality({k \in seg : log[k].op = "save"})
                        = Len(log[p + 2].resp)
    /\ \A g \in 1..Len(log) :
          log[g].op = "txt2img" =>
              /\ g > 1 /\ log[g - 1].op = "options"
              /\ g > 2 /\ IsNameCall(log[g - 2])
              /\ NamesBefore(g) = Cardinality({k \in 1..g : log[k].op = "txt2img"})
    /\ AbortedInSynthesis =>
          /\ Len(NameCalls) = i + 1
          /\ \A k \in 1..(Len(log) - 1) : log[k].status # "raised"
          /\ ~ENABLED Next

\* C14 witness: the generate call of index 1 failed after the file of index 0 was
\* written; two names were asked for
C14_Witness ==
    /\ AbortedInSynthesis
    /\ Last(log).op = "txt2img"
    /\ i = 1
    /\ Len(NameCalls) = 2
    /\ SavesOf(0) # {}

----------------------------------------------------------------------------
\* C15: for every index the loop is through with, whose generate call returned k
\* images: the log goes on with, image by image, the decode, one describeImage call
\* for that image and one write to Texture<i>.png of the decoded image with the
\* info of that call; nothing else is done for the index; for k >= 1 the file holds
\* the last image with its info; for k = 0 the very next entry is the name call of
\* index i+1 (or the run is over), and a generate call answered with no image never
\* leaves the run aborted.
C15_AnyCardinality ==
    \A g \in 1..Len(log) :
        (log[g].op = "txt2img" /\ log[g].status = "ok") =>
            LET idx == NamesBefore(g) - 1
                r == log[g].resp
                k == Len(r)
                path == TexturePath(idx)
                end == g + 3 * k
            IN  /\ idx < i =>
                      /\ Len(log) >= end
                      /\ \A j \in 1..k :
                            LET d == log[g + 3 * (j - 1) + 1]
                                m == log[g + 3 * (j - 1) + 2]
                                w == log[g + 3 * (j - 1) + 3]
                            IN  /\ d.op = "b64decode" /\ d.arg = r[j] /\ d.status = "ok"
                                /\ m.op = "png-info" /\ m.status = "ok"
                                /\ m.arg = <<SD_URL \o "/sdapi/v1/png-info",
                                             "data:image/png;base64,">> \o r[j]
                                /\ w.op = "save" /\ w.arg = path /\ w.status = "ok"
                                /\ w.resp = <<d.resp[1], m.resp[1]>>
                      /\ SavesOf(idx) = {g + 3 * j : j \in 1..k}
                      /\ k >= 1 => (path \in DOMAIN files /\ HoldsImage(path, r[k]))
                      /\ k = 0 => path \notin DOMAIN files
                      /\ IF idx + 1 < NumTextures
                         THEN Len(log) > end => IsNameCall(log[end + 1])
                         ELSE Len(log) = end /\ pc = "done"
                /\ (k = 0 /\ g = Len(log)) => pc \in {"for_images", "ask_gpt", "done"}

\* C15 witness: a run that reached its end although the generate call of an index
\* before the last returned no image
C15_Witness ==
    /\ pc = "done"
    /\ test = "true"
    /\ \E g \in 1..(Len(log) - 1) :
          /\ log[g].op = "txt2img" /\ log[g].status = "ok" /\ log[g].resp = << >>
          /\ IsNameCall(log[g + 1])
    /\ Cardinality(DOMAIN files) = 4

----------------------------------------------------------------------------
TexturePaths == {TexturePath(idx) : idx \in 0..(NumTextures - 1)}
\* what the save at log position k wrote
Written(k) == [image |-> log[k].resp[1], parameters |-> log[k].resp[2]]
\* the file Texture<idx>.png is as the earlier run left it: there with the same
\* content, or not there as before
Untouched(idx) ==
    IF TexturePath(idx) \in DOMAIN EarlierFiles
    THEN /\ TexturePath(idx) \in DOMAIN files
         /\ files[TexturePath(idx)] = EarlierFiles[TexturePath(idx)]
    ELSE TexturePath(idx) \notin DOMAIN files

\* in the first run and in the one after it: only Texture0.png .. Texture4.png are
\* written; every write succeeds, over an existing file too, and shows no dialog;
\* a file the run has written holds what the run's last write to it wrote, which
\* is not what the earlier run had left there; a file the run has not written is
\* as the earlier run left it
WritesReplaceInPlace ==
    /\ DOMAIN files \subseteq TexturePaths
    /\ Cardinality(DOMAIN files) <= NumTextures
    /\ \A k \in 1..Len(log) :
          log[k].op = "save" =>
              /\ log[k].arg \in TexturePaths
              /\ log[k].status = "ok"
              /\ dialogs = << >>
    /\ \A idx \in 0..(NumTextures - 1) :
          IF SavesOf(idx) # {}
          THEN /\ TexturePath(idx) \in DOMAIN files
               /\ files[TexturePath(idx)] = Written(Max(SavesOf(idx)))
               /\ TexturePath(idx) \in DOMAIN EarlierFiles =>
                     files[TexturePath(idx)] # EarlierFiles[TexturePath(idx)]
          ELSE Untouched(idx)

\* the file the earlier run left as Texture<idx>.png is still there, unchanged
EarlierKept(idx) ==
    TexturePath(idx) \in DOMAIN EarlierFiles =>
        /\ TexturePath(idx) \in DOMAIN files
        /\ files[TexturePath(idx)] = EarlierFiles[TexturePath(idx)]

\* C16 as stated: writes replace in place as above, and a later run that aborts at
\* index i has left the earlier run's files of every index >= i untouched.
C16_AbortLeavesFromIndexUntouched ==
    /\ WritesReplaceInPlace
    /\ (AfterEarlierRun /\ pc = "aborted") =>
          \A idx \in i..(NumTextures - 1) : EarlierKept(idx)

\* C16 amended: writes replace in place as above, and a later run that aborts at
\* index i has left the earlier run's files of every index > i untouched; the file
\* of index i itself it has left untouched exactly when the failure came before the
\* first write of index i, and otherwise it has replaced it with the image written
\* last before the failure.
C16_AbortLeavesLaterUntouched ==
    /\ WritesReplaceInPlace
    /\ (AfterEarlierRun /\ pc = "aborted") =>
          /\ \A idx \in (i + 1)..(NumTextures - 1) : EarlierKept(idx)
          /\ Cardinality(SavesOf(i)) =
                IF Last(log).op \in {"b64decode", "png-info"} THEN n - 1 ELSE 0
          /\ IF SavesOf(i) = {}
             THEN EarlierKept(i)
             ELSE files[TexturePath(i)] = Written(Max(SavesOf(i)))

\* C16 witness: the second run overwrote Texture0.png and the first image of
\* Texture<i>.png, i >= 1, and then failed on the second image; the first run's
\* Texture4.png is still there
C16_Witness ==
    /\ AfterEarlierRun
    /\ pc = "aborted"
    /\ i \in 1..3
    /\ n = 2
    /\ SavesOf(0) # {} /\ TexturePath(0) \in DOMAIN EarlierFiles
    /\ SavesOf(i) # {} /\ TexturePath(i) \in DOMAIN EarlierFiles
    /\ TexturePath(4) \in DOMAIN files
    /\ files[TexturePath(4)] = EarlierFiles[TexturePath(4)]

----------------------------------------------------------------------------
Count(op) == Cardinality({k \in 1..Len(log) : log[k].op = op})
OneImageEach == \A k \in 1..Len(log) : log[k].op = "txt2img" => Len(log[k].resp) = 1

\* no call is issued a second time: a call that failed is the last entry of the
\* log; there is at most one reachability GET and one trial completion; an options
\* call only follows a name call and a generate call only an options call, so that
\* every loop index has at most one of each; no two name calls carry the same
\* prompt, and no image is decoded, described or written twice
SinglePass ==
    /\ Count("requests.get") <= 1
    /\ Cardinality({k \in 1..Len(log) : CheckOf(log[k]) = 4}) <= 1
    /\ Len(NameCalls) <= NumTextures
    /\ \A k \in 1..Len(log) :
          /\ log[k].status \notin {"ok", "http_error"} => k = Len(log)
          /\ log[k].op = "options" => (k > 1 /\ IsNameCall(log[k - 1]))
          /\ log[k].op = "txt2img" => (k > 1 /\ log[k - 1].op = "options")
          /\ log[k].op \in {"Completion.create", "b64decode", "png-info", "save"} =>
                \A j \in 1..(k - 1) :
                    log[j].op = log[k].op =>
                        IF log[k].op = "save" THEN log[j].resp # log[k].resp
                                              ELSE log[j].arg # log[k].arg

\* the calls of a run in which every call succeeded with one image per generate
ExactCalls ==
    (SuccessfulRun /\ OneImageEach) =>
        /\ Count("QDir.exists") = 1
        /\ Count("requests.get") = 1
        /\ Count("encode") = 2
        /\ Count("Completion.create") = NumTextures + 1
        /\ Len(NameCalls) = NumTextures
        /\ Count("options") = NumTextures
        /\ Count("txt2img") = NumTextures
        /\ Count("b64decode") = NumTextures
        /\ Count("png-info") = NumTextures
        /\ Count("save") = NumTextures
        /\ Len(log) = 5 + 6 * NumTextures

\* C17: a run is a single pass: no call is ever issued a second time; a run in
\* which every call succeeded with one image per generate is over after 1 GET,
\* 6 completion calls (the trial and 5 names), 5 options, 5 generate and 5
\* describeImage calls and 5 writes; and, every issued call returning or failing,
\* every run that was started comes to its end.
C17_SinglePassTerminates ==
    /\ [](SinglePass /\ ExactCalls)
    /\ [](pc # "idle" => <>Finished)

\* C17 witness: a run that reached its end with every call succeeding and one
\* image per generate call
C17_Witness ==
    /\ SuccessfulRun
    /\ OneImageEach
    /\ Count("save") = NumTextures
    /\ Count("Completion.create") = NumTextures + 1

====
